---- MODULE Spec2Model ----
(***************************************************************************)
(* Minesweeper board engine (src/src/board.rs): packed cells, lazy mine    *)
(* placement with a safe first move, breadth-first reveal cascade, flag    *)
(* cycling, win/loss detection and the elapsed-time cache.                 *)
(***************************************************************************)
EXTENDS Integers, Sequences, FiniteSets, TLC

\* ---- bounds of the model ------------------------------------------------
MaxRows == 2
MaxCols == 4
MaxCells == 6
MaxMines == 2
MaxClock == 2
MaxCalls == 4
StartRows == 3
StartCols == 4
StartMines == 2
StartCells == 12
TimedCells == 4

\* ---- BoardCellState discriminants (board.rs:21-28) ----------------------
Discovered == 0
Blank == 1
Flagged == 2
Question == 3
Exploded == 4
Other == 5

\* the mine sentinel stored in the low nibble of a cell
MINE == 15

VARIABLES board, rows, cols, mines, game_state, start, clicked_cells,
          flagged_cells, start_time, display_time, now, first, calls

vars == <<board, rows, cols, mines, game_state, start, clicked_cells,
          flagged_cells, start_time, display_time, now, first, calls>>

\* ---- BoardCell ----------------------------------------------------------
\* BoardCell::new : a Blank cell of value 0
NewCell == 1 * 16

\* BoardCell::state : the high bits of the byte
State(c) == IF c \div 16 <= 4 THEN c \div 16 ELSE Other

\* BoardCell::value : the low nibble
Value(c) == c % 16

\* click() that clears the byte instead of keeping the low nibble
CellClickClears(c) == IF State(c) = Blank THEN 0 ELSE c

\* BoardCell::click : the cell after the call
CellClick(c) == IF State(c) = Blank THEN Value(c) ELSE c

\* click() that signals continue for every Blank cell, whatever its value
CellClickRetAlways(c) == State(c) = Blank

\* BoardCell::click : the returned cascade-continue signal
CellClickRet(c) == State(c) = Blank /\ Value(c) = 0

\* flag() with the cycle written (state + 1) % 3 instead of state % 3 + 1
CellFlagWrongCycle(c) ==
    IF State(c) # Discovered THEN (Value(c) + ((State(c) + 1) % 3) * 16) % 256
    ELSE c

\* flag() without the Discovered test of line 106
CellFlagUnguarded(c) == (Value(c) + ((State(c) % 3) + 1) * 16) % 256

\* BoardCell::flag : the cell after the call
CellFlag(c) ==
    IF State(c) # Discovered THEN (Value(c) + ((State(c) % 3) + 1) * 16) % 256
    ELSE c

\* flag() with the two non-zero arms of the match on lines 110-111 shifted by
\* one tag: the -1 is returned on reaching Blank, not on reaching Question
CellFlagRetShifted(c) ==
    LET s == State(CellFlag(c)) IN
    IF s = Blank THEN -1 ELSE IF s = Flagged THEN 1 ELSE 0

\* BoardCell::flag : the returned delta, decided by the tag after the call
CellFlagRet(c) ==
    LET s == State(CellFlag(c)) IN
    IF s = Question THEN -1 ELSE IF s = Flagged THEN 1 ELSE 0

\* ---- helpers on the grid ------------------------------------------------
Cells(r, c) == (0 .. r - 1) \X (0 .. c - 1)

\* the nine offsets of iproduct!(-1..=1, -1..=1), in iteration order
Offsets == << <<-1, -1>>, <<-1, 0>>, <<-1, 1>>, <<0, -1>>, <<0, 0>>, <<0, 1>>,
              <<1, -1>>, <<1, 0>>, <<1, 1>> >>

\* the in-bounds filter applied to (x + dx, y + dy)
InBounds(r, c, x, y) == 0 <= x /\ x < r /\ 0 <= y /\ y < c

\* the in-bounds cells of the 3x3 block around (x, y), in iteration order
Around(r, c, x, y) ==
    SelectSeq([k \in 1 .. 9 |-> <<x + Offsets[k][1], y + Offsets[k][2]>>],
              LAMBDA p : InBounds(r, c, p[1], p[2]))

SeqToSet(s) == {s[k] : k \in 1 .. Len(s)}

Min(a, b) == IF a <= b THEN a ELSE b

\* sort_unstable on distinct indices: the increasing enumeration of a set
RECURSIVE SortedSeq(_)
SortedSeq(S) ==
    IF S = {} THEN <<>>
    ELSE LET m == CHOOSE e \in S : \A o \in S : e <= o
         IN <<m>> \o SortedSeq(S \ {m})

\* ---- Board --------------------------------------------------------------
\* the Board struct as one value (the solver handle is an external collaborator)
Self == [board |-> board, rows |-> rows, cols |-> cols, mines |-> mines,
         game_state |-> game_state, start |-> start,
         clicked_cells |-> clicked_cells, flagged_cells |-> flagged_cells,
         start_time |-> start_time, display_time |-> display_time]

\* Board::new
New(r, c, m) ==
    [board |-> [p \in Cells(r, c) |-> NewCell], rows |-> r, cols |-> c,
     mines |-> m, game_state |-> "InProgress", start |-> FALSE,
     clicked_cells |-> 0, flagged_cells |-> 0, start_time |-> <<>>,
     display_time |-> 0]

\* Board::start, lines 163-168: the sorted row-major indices of the 3x3 block
Exclusion(b, x, y) ==
    SortedSeq({p[1] * b.cols + p[2] : p \in SeqToSet(Around(b.rows, b.cols, x, y))})

\* Board::start, lines 172-184: one pass of the run compression over element k
RECURSIVE CompressFrom(_, _, _, _, _, _, _)
CompressFrom(es, k, n, temp, st, len, next) ==
    IF k > Len(es) THEN temp \o << <<st, len>>, <<n, 0>> >>
    ELSE IF es[k] = next
         THEN CompressFrom(es, k + 1, n, temp, st, len + 1, next + 1)
         ELSE CompressFrom(es, k + 1, n,
                           IF st # n THEN Append(temp, <<st, len>>) ELSE temp,
                           es[k], 1, es[k] + 1)

\* Board::start, lines 169-188: the runs (start, length), with the leading
\* (0, 0) entry and the closing (rows*cols, 0) entry
Runs(b, x, y) ==
    LET n == b.rows * b.cols
    IN CompressFrom(Exclusion(b, x, y), 1, n, << <<0, 0>> >>, n, 0, n)

RECURSIVE SumLens(_)
SumLens(places) ==
    IF places = <<>> THEN 0 ELSE Head(places)[2] + SumLens(Tail(places))

\* Board::start, line 190: the size of the index space that is sampled
SampleSpace(b, x, y) == b.rows * b.cols - SumLens(Runs(b, x, y))

\* choose_multiple(rng, mines): every subset of min(mines, len) distinct indices
Samples(b, x, y) ==
    LET m == SampleSpace(b, x, y)
    IN {S \in SUBSET (0 .. m - 1) : Cardinality(S) = Min(b.mines, m)}

\* the while loop with < for <= in the test of line 201
RECURSIVE AdvanceStrict(_, _, _, _)
AdvanceStrict(places, a, delta, i) ==
    IF i >= Len(places) THEN [delta |-> delta, i |-> i, oob |-> TRUE]
    ELSE IF places[i + 1][1] < a + delta
         THEN AdvanceStrict(places, a, delta + places[i + 1][2], i + 1)
         ELSE [delta |-> delta, i |-> i, oob |-> FALSE]

\* Board::start, lines 201-204: the while loop that advances the run cursor;
\* oob records an index past the end of places (a panic in the program)
RECURSIVE Advance(_, _, _, _)
Advance(places, a, delta, i) ==
    IF i >= Len(places) THEN [delta |-> delta, i |-> i, oob |-> TRUE]
    ELSE IF places[i + 1][1] <= a + delta
         THEN Advance(places, a, delta + places[i + 1][2], i + 1)
         ELSE [delta |-> delta, i |-> i, oob |-> FALSE]

\* Board::start, lines 196-207: the remapped linear indices of the sorted sample
RECURSIVE Remap(_, _, _, _, _, _)
Remap(places, pos, k, delta, i, flag) ==
    IF k > Len(pos) THEN <<>>
    ELSE LET r == Advance(places, pos[k], delta, i)
         IN <<pos[k] + r.delta * (IF flag THEN 1 ELSE 0)>>
            \o Remap(places, pos, k + 1, r.delta, r.i, flag)

\* one mine placed without the neighbour increments of lines 218-229
PlaceMineNoCount(b, bd, x, y) ==
    [bd EXCEPT ![<<x, y>>] = MINE + State(bd[<<x, y>>]) * 16]

\* one mine placed without the sentinel test of line 224
PlaceMineCountsMines(b, bd, x, y) ==
    LET withMine == [bd EXCEPT ![<<x, y>>] = MINE + State(bd[<<x, y>>]) * 16]
        near == SeqToSet(Around(b.rows, b.cols, x, y))
    IN [p \in DOMAIN bd |->
          IF p \in near /\ p # <<x, y>>
          THEN (withMine[p] + 1) % 256 ELSE withMine[p]]

\* Board::start, lines 217-229: one mine placed at (x, y)
PlaceMine(b, bd, x, y) ==
    LET withMine == [bd EXCEPT ![<<x, y>>] = MINE + State(bd[<<x, y>>]) * 16]
        near == SeqToSet(Around(b.rows, b.cols, x, y))
    IN [p \in DOMAIN bd |->
          IF p \in near /\ Value(withMine[p]) # MINE
          THEN (withMine[p] + 1) % 256 ELSE withMine[p]]

\* Board::start, lines 216-230: the mines placed in the order of pos
RECURSIVE PlaceMines(_, _, _, _)
PlaceMines(b, bd, pos, k) ==
    IF k > Len(pos) THEN bd
    ELSE PlaceMines(b, PlaceMine(b, bd, pos[k] \div b.cols, pos[k] % b.cols), pos, k + 1)

\* Start with the shift of line 206 dropped (a + delta * flag read as a)
StartUnshifted(b, x, y, flag, S, t) ==
    LET pos == Remap(Runs(b, x, y), SortedSeq(S), 1, 0, 0, FALSE)
    IN [b EXCEPT !.board = PlaceMines(b, b.board, pos, 1),
                 !.start = TRUE,
                 !.start_time = <<t>>]

\* Board::start: S is the outcome of the sampling, t the reading of the clock
Start(b, x, y, flag, S, t) ==
    LET pos == Remap(Runs(b, x, y), SortedSeq(S), 1, 0, 0, flag)
    IN [b EXCEPT !.board = PlaceMines(b, b.board, pos, 1),
                 !.start = TRUE,
                 !.start_time = <<t>>]

\* Board::click, lines 258-269: the number of Flagged cells of the 3x3 block
FlaggedAround(b, x, y) ==
    Cardinality({p \in SeqToSet(Around(b.rows, b.cols, x, y)) :
                    State(b.board[p]) = Flagged})

\* the Blank cells of the 3x3 block around (x, y), in iteration order
BlankAround(b, x, y) ==
    SelectSeq(Around(b.rows, b.cols, x, y), LAMBDA p : State(b.board[p]) = Blank)

\* Seeds without the comparison of line 270: every click on a Discovered cell
\* is taken as a chord
SeedsAnyCount(b, x, y) ==
    LET chord == IF State(b.board[<<x, y>>]) = Discovered
                 THEN BlankAround(b, x, y) ELSE <<>>
        direct == IF State(b.board[<<x, y>>]) = Blank THEN << <<x, y>> >> ELSE <<>>
    IN chord \o direct

\* Board::click, lines 257-289: the queue the cascade starts from
Seeds(b, x, y) ==
    LET chord == IF State(b.board[<<x, y>>]) = Discovered
                    /\ FlaggedAround(b, x, y) = Value(b.board[<<x, y>>])
                 THEN BlankAround(b, x, y) ELSE <<>>
        direct == IF State(b.board[<<x, y>>]) = Blank THEN << <<x, y>> >> ELSE <<>>
    IN chord \o direct

\* Explode without the assignment of line 297: the cell is left as click() left it
ExplodeUnmarked(b, p) ==
    [b EXCEPT !.game_state = "Lost", !.board[p] = CellClick(b.board[p])]

\* Board::click, lines 295-297: the popped cell carries the mine sentinel
Explode(b, p) ==
    [b EXCEPT !.game_state = "Lost", !.board[p] = MINE + Exploded * 16]

\* Board::click, lines 300-303: the popped cell is counted and revealed
Reveal(b, p) ==
    [b EXCEPT !.clicked_cells = IF State(b.board[p]) = Blank THEN @ + 1 ELSE @,
              !.board[p] = CellClick(b.board[p])]

\* Enqueue without the visited set of line 311
EnqueueNoVisited(b, p, set) ==
    BlankAround(b, p[1], p[2])

\* Board::click, lines 304-317: the neighbours of the revealed cell p that
\* are pushed on the queue
Enqueue(b, p, set) ==
    SelectSeq(BlankAround(b, p[1], p[2]), LAMBDA n : n \notin set)

\* Board::click, lines 292-319: the breadth-first loop; returned is TRUE when
\* the loop left the function through the early return of line 298, popped
\* lists the cells in the order pop_front delivered them, left is the queue
\* the early return dropped
RECURSIVE Cascade(_, _, _)
Cascade(b, q, set) ==
    IF q = <<>> THEN [b |-> b, returned |-> FALSE, popped |-> <<>>, left |-> <<>>]
    ELSE LET p == Head(q)
             c == b.board[p]
         IN IF Value(c) = MINE
            THEN [b |-> Explode(b, p), returned |-> TRUE, popped |-> <<p>>,
                  left |-> Tail(q)]
            ELSE LET b1 == Reveal(b, p)
                     more == IF CellClickRet(c) THEN Enqueue(b1, p, set) ELSE <<>>
                     r == Cascade(b1, Tail(q) \o more, set \cup SeqToSet(more))
                 IN [r EXCEPT !.popped = <<p>> \o @]

\* the win check with the mine count left out of the comparison
WinCheckAllCells(b) ==
    IF b.clicked_cells = b.cols * b.rows
    THEN [b EXCEPT !.game_state = "Won"] ELSE b

\* Board::click, lines 321-323: the win check after the queue has drained
WinCheck(b) ==
    IF b.clicked_cells + b.mines = b.cols * b.rows
    THEN [b EXCEPT !.game_state = "Won"] ELSE b

\* Board::click
Click(b, x, y, S, t) ==
    LET b0 == IF ~b.start THEN Start(b, x, y, TRUE, S, t) ELSE b
        q == Seeds(b0, x, y)
        r == Cascade(b0, q, SeqToSet(q))
    IN IF r.returned THEN r.b ELSE WinCheck(r.b)

\* Board::flag
Flag(b, x, y, S, t) ==
    LET b0 == IF State(b.board[<<x, y>>]) = Discovered THEN Click(b, x, y, S, t) ELSE b
        b1 == IF ~b0.start THEN Start(b0, x, y, FALSE, S, t) ELSE b0
        c == b1.board[<<x, y>>]
    IN [b1 EXCEPT !.flagged_cells = @ + CellFlagRet(c),
                  !.board[<<x, y>>] = CellFlag(c)]

\* Board::get_display_time, read at clock value t
GetDisplayTime(b, t) ==
    IF b.game_state = "InProgress"
    THEN IF b.start_time # <<>> THEN t - b.start_time[1] ELSE 0
    ELSE b.display_time

\* update() that flags the mines of a won game through flag() instead of
\* assigning the Flagged tag
UpdateCellCycling(b, c) ==
    IF Value(c) # MINE THEN CellClick(c)
    ELSE IF b.game_state = "Won" THEN CellFlag(c)
    ELSE IF State(c) # Exploded THEN MINE
    ELSE c

\* update() without the Exploded test of line 354
UpdateCellNoExploded(b, c) ==
    IF Value(c) # MINE THEN CellClick(c)
    ELSE IF b.game_state = "Won" THEN MINE + Flagged * 16
    ELSE MINE

\* Board::update, lines 350-356: what the loop does to one cell
UpdateCell(b, c) ==
    IF Value(c) # MINE THEN CellClick(c)
    ELSE IF b.game_state = "Won" THEN MINE + Flagged * 16
    ELSE IF State(c) # Exploded THEN MINE
    ELSE c

\* Board::update
Update(b, t) ==
    LET b0 == [b EXCEPT !.display_time = GetDisplayTime(b, t)]
    IN IF b0.game_state # "InProgress"
       THEN [b0 EXCEPT !.board = [p \in DOMAIN b0.board |-> UpdateCell(b0, b0.board[p])]]
       ELSE b0

\* ---- the state machine --------------------------------------------------
\* the fields of the Board after an operation
Becomes(b) ==
    /\ board' = b.board
    /\ rows' = b.rows
    /\ cols' = b.cols
    /\ mines' = b.mines
    /\ game_state' = b.game_state
    /\ start' = b.start
    /\ clicked_cells' = b.clicked_cells
    /\ flagged_cells' = b.flagged_cells
    /\ start_time' = b.start_time
    /\ display_time' = b.display_time

\* the outcomes of the sampling that a call at (x, y) can see
Outcomes(x, y) == IF start THEN {{}} ELSE Samples(Self, x, y)

\* the record of the call that activated the board
Activation(x, y, kind) == IF start THEN first ELSE <<x, y, kind>>

\* Board::new(r, c, m) for every shape within the bounds and every mine count
\* that leaves at least one cell free of mines
Init ==
    \E r \in 1 .. MaxRows, c \in 1 .. MaxCols, m \in 0 .. MaxMines :
        /\ r * c <= MaxCells
        /\ m < r * c
        /\ board = New(r, c, m).board
        /\ rows = r
        /\ cols = c
        /\ mines = m
        /\ game_state = "InProgress"
        /\ start = FALSE
        /\ clicked_cells = 0
        /\ flagged_cells = 0
        /\ start_time = <<>>
        /\ display_time = 0
        /\ now = 0
        /\ first = <<>>
        /\ calls = 0

ClickAt(x, y) ==
    /\ calls < MaxCalls
    /\ \E S \in Outcomes(x, y) : Becomes(Click(Self, x, y, S, now))
    /\ first' = Activation(x, y, "click")
    /\ calls' = calls + 1
    /\ now' = now

FlagAt(x, y) ==
    /\ calls < MaxCalls
    /\ \E S \in Outcomes(x, y) : Becomes(Flag(Self, x, y, S, now))
    /\ first' = Activation(x, y, "flag")
    /\ calls' = calls + 1
    /\ now' = now

DoUpdate ==
    /\ calls < MaxCalls
    /\ Becomes(Update(Self, now))
    /\ calls' = calls + 1
    /\ UNCHANGED <<first, now>>

Tick ==
    /\ now < MaxClock
    /\ now' = now + 1
    /\ UNCHANGED <<board, rows, cols, mines, game_state, start, clicked_cells,
                   flagged_cells, start_time, display_time, first, calls>>

DoClick == \E p \in Cells(rows, cols) : ClickAt(p[1], p[2])

DoFlag == \E p \in Cells(rows, cols) : FlagAt(p[1], p[2])

\* the calls a caller can make on the Board
Next == DoClick \/ DoFlag \/ DoUpdate

Spec == Init /\ [][Next]_vars

\* the calls interleaved with the advancing wall clock
TimedNext == DoClick \/ DoFlag \/ DoUpdate \/ Tick

\* the grids on which the clock is followed
TimedInit == Init /\ rows * cols <= TimedCells

TimedSpec == TimedInit /\ [][TimedNext]_vars

\* update() called while the game is running
IdleUpdate == game_state = "InProgress" /\ DoUpdate

\* play in which update() is never called on a finished game
PlayNext == DoClick \/ DoFlag \/ IdleUpdate

PlaySpec == Init /\ [][PlayNext]_vars

\* ---- activation alone, on wider grids -------------------------------------
\* Board::new(r, c, m) for the grids on which only the activation is followed
StartInit ==
    \E r \in 1 .. StartRows, c \in 1 .. StartCols, m \in 0 .. StartMines :
        /\ r * c <= StartCells
        /\ m < r * c
        /\ board = New(r, c, m).board
        /\ rows = r
        /\ cols = c
        /\ mines = m
        /\ game_state = "InProgress"
        /\ start = FALSE
        /\ clicked_cells = 0
        /\ flagged_cells = 0
        /\ start_time = <<>>
        /\ display_time = 0
        /\ now = 0
        /\ first = <<>>
        /\ calls = 0

\* the first click on a fresh board
ActivateByClick == ~start /\ DoClick

\* the first flag on a fresh board
ActivateByFlag == ~start /\ DoFlag

StartNext == ActivateByClick \/ ActivateByFlag

StartSpec == StartInit /\ [][StartNext]_vars

\* ---- vocabulary of the properties ---------------------------------------
AllCells == Cells(rows, cols)

IsMine(bd, p) == Value(bd[p]) = MINE

Tagged(bd, tag) == {p \in DOMAIN bd : State(bd[p]) = tag}

\* the cells within Chebyshev distance 1 of the activating call
NearFirst == SeqToSet(Around(rows, cols, first[1], first[2]))

NoMineNearFirst == \A p \in NearFirst : ~IsMine(board, p)

ActivatedBy(kind) == start /\ first[3] = kind

\* ---- C1 -----------------------------------------------------------------
\* C1: the click that activates a fresh board leaves no mine sentinel within
\* Chebyshev distance 1 of the clicked cell, whatever the sampling gave, and
\* the game is not Lost when that click returns.
C1_FirstClickSafe ==
    [][(~start /\ start' /\ first'[3] = "click")
          => (NoMineNearFirst' /\ game_state' # "Lost")]_vars

\* a board activated by a click that did place a mine, seen as the click returns
C1_Witness ==
    /\ ActivatedBy("click")
    /\ calls = 1
    /\ \E p \in AllCells : IsMine(board, p)
    /\ game_state = "InProgress"

\* ---- C2 -----------------------------------------------------------------
\* C2: when flag(x, y) activates a fresh board, no cell within Chebyshev
\* distance 1 of (x, y) carries the mine sentinel.
C2_FirstFlagSafe == ActivatedBy("flag") => NoMineNearFirst

\* ---- C3 -----------------------------------------------------------------
\* C3: Won and Lost are terminal; game_state only ever moves from InProgress
\* to Won or from InProgress to Lost.
C3_TerminalStates ==
    [][/\ game_state = "Won" => game_state' = "Won"
       /\ game_state = "Lost" => game_state' = "Lost"]_vars

\* ---- C4 -----------------------------------------------------------------
\* C4: clicked_cells + mines = rows * cols holds exactly in the Won states.
C4_WonIffAllDiscovered ==
    (clicked_cells + mines = rows * cols) <=> (game_state = "Won")

\* ---- C5 -----------------------------------------------------------------
\* C5 as stated: click(x, y) on a cell carrying the mine sentinel sets Lost,
\* leaves exactly one Exploded cell in the grid, the clicked one, and keeps the
\* tag of every other mine cell.
C5_ClickMineExplodesOne ==
    \A p \in AllCells :
        (start /\ IsMine(board, p)) =>
            LET b == Click(Self, p[1], p[2], {}, now)
            IN /\ b.game_state = "Lost"
               /\ Tagged(b.board, Exploded) = {p}
               /\ \A o \in AllCells \ {p} :
                     IsMine(board, o) => State(b.board[o]) = State(board[o])

\* C5 amended: click(x, y) on a Blank cell carrying the mine sentinel sets
\* Lost, gives that cell the Exploded tag and changes no other cell and no
\* counter; on an InProgress board the clicked cell is then the only Exploded
\* cell of the grid.
C5_ClickBlankMineExplodes ==
    \A p \in AllCells :
        (start /\ IsMine(board, p) /\ State(board[p]) = Blank) =>
            LET b == Click(Self, p[1], p[2], {}, now)
            IN /\ b = [Self EXCEPT !.game_state = "Lost",
                                   !.board[p] = MINE + Exploded * 16]
               /\ game_state = "InProgress" => Tagged(b.board, Exploded) = {p}

\* a lost game as the fatal click returns: one Exploded cell, another mine
\* still hidden behind its Blank tag
C5_Witness ==
    /\ game_state = "Lost"
    /\ clicked_cells + mines < rows * cols
    /\ Cardinality(Tagged(board, Exploded)) = 1
    /\ \E o \in AllCells : IsMine(board, o) /\ State(board[o]) = Blank

\* ---- C6 -----------------------------------------------------------------
\* the tag flag() moves a cell to, as the cycle is described
NextTag(tag) ==
    CASE tag = Blank -> Flagged
      [] tag = Flagged -> Question
      [] tag = Question -> Blank
      [] tag = Exploded -> Flagged
      [] OTHER -> tag

\* flag(x, y) on cell p moves its tag to NextTag and adds delta(old tag) to
\* flagged_cells, whatever the sampling gives when the call activates the board
FlagFollows(p, delta(_)) ==
    \A S \in Outcomes(p[1], p[2]) :
        LET tag == State(board[p])
            b == Flag(Self, p[1], p[2], S, now)
        IN /\ State(b.board[p]) = NextTag(tag)
           /\ b.flagged_cells = flagged_cells + delta(tag)
           /\ CellFlagRet(board[p]) = delta(tag)
           /\ tag = Discovered => b.board[p] = board[p]

\* the deltas as stated: +1 into Flagged, 0 into Question, -1 back to Blank
StatedDelta(tag) ==
    CASE tag = Blank -> 1
      [] tag = Flagged -> 0
      [] tag = Question -> -1
      [] OTHER -> 0

\* the deltas of the code, decided by the tag moved to: +1 into Flagged (from
\* Blank or from Exploded), -1 into Question, 0 back to Blank
CodeDelta(tag) ==
    CASE tag = Blank -> 1
      [] tag = Flagged -> -1
      [] tag = Question -> 0
      [] tag = Exploded -> 1
      [] OTHER -> 0

\* C6 as stated: Blank -> Flagged yields +1, Flagged -> Question yields 0,
\* Question -> Blank yields -1, a Discovered cell is left alone with 0, and
\* Board::flag adds that delta to flagged_cells.
C6_FlagDeltaAsStated ==
    \A p \in AllCells :
        State(board[p]) \in {Discovered, Blank, Flagged, Question}
            => FlagFollows(p, StatedDelta)

\* C6 amended: Blank -> Flagged yields +1, Flagged -> Question yields -1,
\* Question -> Blank yields 0, a Discovered cell is left alone with 0, and
\* Board::flag adds that delta to flagged_cells (an Exploded cell, which the
\* cycle also moves, goes to Flagged with +1).
C6_FlagDelta == \A p \in AllCells : FlagFollows(p, CodeDelta)

\* a cell flagged twice, Blank -> Flagged -> Question, with the counter back at 0
C6_Witness ==
    /\ \E p \in AllCells : IsMine(board, p)
    /\ \E p \in AllCells : State(board[p]) = Question
    /\ Tagged(board, Flagged) = {}
    /\ flagged_cells = 0

\* ---- C7 -----------------------------------------------------------------
\* C7: on an activated board three flag(x, y) calls on a Blank cell take it
\* through Flagged and Question back to Blank and restore the whole Board:
\* flagged_cells, the cell, every other cell, clicked_cells and game_state.
C7_FlagCycleRestores ==
    \A p \in AllCells :
        (start /\ State(board[p]) = Blank) =>
            LET b1 == Flag(Self, p[1], p[2], {}, now)
                b2 == Flag(b1, p[1], p[2], {}, now)
                b3 == Flag(b2, p[1], p[2], {}, now)
            IN /\ State(b1.board[p]) = Flagged
               /\ State(b2.board[p]) = Question
               /\ State(b3.board[p]) = Blank
               /\ b3 = Self

\* three calls were made, the activating one was flag(x, y), and (x, y) is
\* Blank again: the three calls were one full cycle on that cell
C7_Witness ==
    /\ ActivatedBy("flag")
    /\ calls = 3
    /\ \E p \in AllCells : IsMine(board, p)
    /\ State(board[<<first[1], first[2]>>]) = Blank
    /\ flagged_cells = 0

\* ---- C8 -----------------------------------------------------------------
\* C8: in a Won or Lost state a second update() changes nothing the first one
\* left: same grid, counters and game_state, whenever the two calls happen.
C8_UpdateIdempotent ==
    game_state # "InProgress" =>
        \A t1 \in now .. MaxClock : \A t2 \in t1 .. MaxClock :
            Update(Update(Self, t1), t2) = Update(Self, t1)

\* a won game on which update() has run: the mine is shown Flagged although
\* flagged_cells counts no flag, and a further update() changes nothing
C8_Witness ==
    /\ game_state = "Won"
    /\ \E p \in AllCells : IsMine(board, p) /\ State(board[p]) = Flagged
    /\ flagged_cells = 0
    /\ Update(Self, now) = Self

\* ---- C9 -----------------------------------------------------------------
\* C9 as stated: update() in a Lost state leaves every non-mine cell
\* Discovered whatever its tag was, every mine cell that is not Exploded as
\* the plain mine marker, and the Exploded cell Exploded.
C9_LostUpdateRevealsAll ==
    game_state = "Lost" =>
        LET b == Update(Self, now)
        IN /\ \A p \in AllCells :
                 /\ ~IsMine(board, p) => State(b.board[p]) = Discovered
                 /\ (IsMine(board, p) /\ State(board[p]) # Exploded)
                       => b.board[p] = MINE
                 /\ State(board[p]) = Exploded => b.board[p] = board[p]
           /\ Tagged(b.board, Exploded) # {}

\* C9 amended: update() in a Lost state reveals every non-mine cell that is
\* Blank and leaves a Flagged or Question non-mine cell as it is; every mine
\* cell that is not Exploded becomes the plain mine marker (value 15, neither
\* Flagged nor Exploded); every Exploded cell stays Exploded.
C9_LostUpdate ==
    game_state = "Lost" =>
        LET b == Update(Self, now)
        IN \A p \in AllCells :
              /\ (~IsMine(board, p) /\ State(board[p]) = Blank)
                    => b.board[p] = Value(board[p])
              /\ (~IsMine(board, p) /\ State(board[p]) # Blank)
                    => b.board[p] = board[p]
              /\ (IsMine(board, p) /\ State(board[p]) # Exploded)
                    => b.board[p] = MINE
              /\ State(board[p]) = Exploded => b.board[p] = board[p]

\* a lost game on which update() has run: a wrongly flagged cell still
\* Flagged, another mine shown as the plain marker, the fatal cell Exploded
C9_Witness ==
    /\ game_state = "Lost"
    /\ \E p \in AllCells : ~IsMine(board, p) /\ State(board[p]) = Flagged
    /\ \E p \in AllCells : board[p] = MINE
    /\ \E p \in AllCells : State(board[p]) = Exploded
    /\ Tagged(board, Blank) = {}

\* ---- C10 ----------------------------------------------------------------
\* C10: update() in a Won state leaves every mine cell Flagged and every
\* non-mine cell Discovered, and does not change flagged_cells.
C10_WonUpdate ==
    game_state = "Won" =>
        LET b == Update(Self, now)
        IN /\ \A p \in AllCells :
                 /\ IsMine(board, p) => State(b.board[p]) = Flagged
                 /\ ~IsMine(board, p) => State(b.board[p]) = Discovered
           /\ b.flagged_cells = flagged_cells

\* ---- C11 ----------------------------------------------------------------
\* what display_time() returns in the current state
Displayed == GetDisplayTime(Self, now)

\* the time elapsed since the activation
Elapsed == IF start_time # <<>> THEN now - start_time[1] ELSE 0

\* C11: the call that first makes the game Won or Lost leaves display_time()
\* equal to the time elapsed at that call, and from then on display_time()
\* keeps its value whatever the clock and the later calls do.
C11_FrozenAtTerminalEntry ==
    [][/\ (game_state = "InProgress" /\ game_state' # "InProgress")
             => Displayed' = Elapsed'
       /\ game_state # "InProgress" => Displayed' = Displayed]_vars

\* ---- C12 ----------------------------------------------------------------
\* the cells of the 3x3 block around p
Near(p) == SeqToSet(Around(rows, cols, p[1], p[2]))

\* a click on p is a chord: p is Discovered on an InProgress board
ChordAt(p) == start /\ game_state = "InProgress" /\ State(board[p]) = Discovered

\* the chord on p is satisfied: as many Flagged neighbours as the value of p
Satisfied(p) == FlaggedAround(Self, p[1], p[2]) = Value(board[p])

\* C12 as stated: a satisfied chord leaves every neighbour that was Blank
\* revealed, or Exploded with the game Lost when it is a mine, and keeps the
\* tag of the Flagged and Question neighbours; an unsatisfied chord changes
\* nothing.
C12_ChordRevealsEveryBlank ==
    \A p \in AllCells :
        ChordAt(p) =>
            LET b == Click(Self, p[1], p[2], {}, now)
            IN IF Satisfied(p)
               THEN \A n \in Near(p) :
                       /\ (State(board[n]) = Blank /\ ~IsMine(board, n))
                             => State(b.board[n]) = Discovered
                       /\ (State(board[n]) = Blank /\ IsMine(board, n))
                             => (b.game_state = "Lost"
                                 /\ State(b.board[n]) = Exploded)
                       /\ State(board[n]) \in {Flagged, Question}
                             => b.board[n] = board[n]
               ELSE b = Self

\* the position in the seed queue of the first cell that carries a mine, or 0
FirstMine(seeds) ==
    IF \E k \in 1 .. Len(seeds) : IsMine(board, seeds[k])
    THEN CHOOSE k \in 1 .. Len(seeds) :
            /\ IsMine(board, seeds[k])
            /\ \A j \in 1 .. k - 1 : ~IsMine(board, seeds[j])
    ELSE 0

\* C12 amended: a satisfied chord seeds every neighbour that is Blank, in
\* row-major order. When none of them is a mine, all of them end Discovered
\* and the game is not Lost. Otherwise the seeds before the first mine are
\* revealed and counted, that mine becomes Exploded with the game Lost, and
\* the cascade stops there: the later seeds stay Blank and nothing else
\* changes. In both cases no Flagged or Question cell changes. An
\* unsatisfied chord changes nothing.
C12_Chord ==
    \A p \in AllCells :
        ChordAt(p) =>
            LET b == Click(Self, p[1], p[2], {}, now)
                seeds == BlankAround(Self, p[1], p[2])
                k == FirstMine(seeds)
            IN IF Satisfied(p)
               THEN /\ \A n \in AllCells :
                          State(board[n]) \in {Flagged, Question}
                             => b.board[n] = board[n]
                    /\ k = 0 =>
                          /\ b.game_state # "Lost"
                          /\ \A j \in 1 .. Len(seeds) :
                                b.board[seeds[j]] = Value(board[seeds[j]])
                    /\ k > 0 =>
                          /\ b.game_state = "Lost"
                          /\ b.clicked_cells = clicked_cells + (k - 1)
                          /\ b.board =
                                [n \in AllCells |->
                                    IF \E j \in 1 .. k - 1 : seeds[j] = n
                                    THEN Value(board[n])
                                    ELSE IF n = seeds[k] THEN MINE + Exploded * 16
                                    ELSE board[n]]
               ELSE b = Self

\* a satisfied chord is at hand that ends on a mine with a seed left behind it
C12_Witness ==
    \E p \in AllCells :
        /\ ChordAt(p)
        /\ Satisfied(p)
        /\ LET seeds == BlankAround(Self, p[1], p[2])
           IN /\ FirstMine(seeds) > 0
              /\ FirstMine(seeds) < Len(seeds)
              /\ Click(Self, p[1], p[2], {}, now).game_state = "Lost"

\* ---- C13 ----------------------------------------------------------------
\* C13: flag(x, y) on a Discovered cell gives the Board that click(x, y)
\* gives from the same state, and the cell is still Discovered.
C13_FlagOnDiscoveredIsClick ==
    \A p \in AllCells :
        State(board[p]) = Discovered =>
            LET f == Flag(Self, p[1], p[2], {}, now)
            IN /\ f = Click(Self, p[1], p[2], {}, now)
               /\ State(f.board[p]) = Discovered

\* a Discovered cell on which flag(x, y) acts as a chord that reveals cells
C13_Witness ==
    \E p \in AllCells :
        /\ ChordAt(p)
        /\ Satisfied(p)
        /\ Value(board[p]) > 0
        /\ Flag(Self, p[1], p[2], {}, now).clicked_cells > clicked_cells

\* ---- C14 ----------------------------------------------------------------
\* the grid of a Board that has not been activated: all Blank, all values 0,
\* no start timestamp
Untouched == (\A p \in AllCells : board[p] = NewCell) /\ start_time = <<>>

\* C14: until the first click or flag the grid is all Blank with value 0 and
\* there is no start timestamp (update() changes none of this); the activating
\* call sets the timestamp to the clock it reads; from then on no call
\* changes the value of any cell or the timestamp, and the board stays started.
C14_ActivatedOnce ==
    [][/\ ~start => Untouched
       /\ (~start /\ ~start') => Untouched'
       /\ (~start /\ start') => start_time' = <<now>>
       /\ start => /\ start'
                   /\ start_time' = start_time
                   /\ \A p \in AllCells : Value(board'[p]) = Value(board[p])]_vars

\* a game activated at clock 1 that has ended by clock 2 with update() run on
\* it: the mines are where they were put and the timestamp is still 1
C14_Witness ==
    /\ start
    /\ start_time = <<1>>
    /\ now = 2
    /\ game_state = "Lost"
    /\ \E p \in AllCells : board[p] = MINE
    /\ \E p \in AllCells : ~IsMine(board, p) /\ Value(board[p]) > 0

\* ---- C15 ----------------------------------------------------------------
\* the cells of a grid that carry the mine sentinel
MinesOf(bd) == {p \in DOMAIN bd : IsMine(bd, p)}

\* every cell of the grid that is not a mine is Discovered
AllSafeDiscovered(bd) ==
    \A p \in DOMAIN bd : ~IsMine(bd, p) => State(bd[p]) = Discovered

\* C15: on an InProgress board a click that pops no mine and leaves every
\* non-mine cell Discovered, exactly `mines` mines having been placed, returns
\* with game_state Won; on a fresh board with mines = 0 the first click
\* reveals every cell and returns Won.
C15_WinOnLastReveal ==
    game_state = "InProgress" =>
        \A p \in AllCells : \A S \in Outcomes(p[1], p[2]) :
            LET b == Click(Self, p[1], p[2], S, now)
            IN /\ (/\ Cardinality(MinesOf(b.board)) = mines
                   /\ b.game_state # "Lost"
                   /\ AllSafeDiscovered(b.board))
                     => b.game_state = "Won"
               /\ (~start /\ mines = 0)
                     => (/\ b.game_state = "Won"
                         /\ \A q \in AllCells : b.board[q] = 0)

\* a game with mines on the grid won by a click, before any update(): every
\* safe cell Discovered and counted, the mines still Blank
C15_Witness ==
    /\ game_state = "Won"
    /\ mines > 0
    /\ Cardinality(MinesOf(board)) = mines
    /\ AllSafeDiscovered(board)
    /\ \A p \in MinesOf(board) : State(board[p]) = Blank
    /\ calls = 2
    /\ ActivatedBy("click")

\* ---- C16 ----------------------------------------------------------------
Abs(n) == IF n < 0 THEN -n ELSE n

\* q is one of the up to eight cells at Chebyshev distance 1 of p
Adjacent(p, q) == p # q /\ Abs(p[1] - q[1]) <= 1 /\ Abs(p[2] - q[2]) <= 1

\* every cell without the sentinel holds the number of its mined neighbours
CountsRight(bd) ==
    \A p \in DOMAIN bd :
        ~IsMine(bd, p) =>
            Value(bd[p]) = Cardinality({q \in DOMAIN bd : Adjacent(p, q) /\ IsMine(bd, q)})

\* C16: after the activation, by click or by flag and whatever the sampling
\* gave, every cell without the sentinel holds the number of its in-bounds
\* neighbours that carry it (so at most 8), and start() changed no tag.
C16_AdjacencyCounts ==
    /\ start => CountsRight(board)
    /\ ~start =>
          \A p \in AllCells : \A S \in Samples(Self, p[1], p[2]) :
             \A shift \in BOOLEAN :
                LET b == Start(Self, p[1], p[2], shift, S, now)
                IN /\ CountsRight(b.board)
                   /\ \A q \in AllCells :
                         /\ State(b.board[q]) = State(board[q])
                         /\ ~IsMine(b.board, q) => Value(b.board[q]) <= 8

\* an activated board with two mines next to each other and a safe cell that
\* counts both
C16_Witness ==
    /\ start
    /\ \E p \in AllCells, q \in AllCells :
          IsMine(board, p) /\ IsMine(board, q) /\ Adjacent(p, q)
    /\ \E p \in AllCells : ~IsMine(board, p) /\ Value(board[p]) = 2

\* ---- C17 ----------------------------------------------------------------
\* the row-major indices within Chebyshev distance 1 of p
ExcludedIdx(p) ==
    {q[1] * cols + q[2] : q \in {c \in AllCells : c = p \/ Adjacent(p, c)}}

\* the indices the runs cover
Covered(places) ==
    UNION {places[k][1] .. (places[k][1] + places[k][2] - 1) : k \in 1 .. Len(places)}

\* the while loop of lines 201-204 never reads places past its last entry
\* while the sorted sample pos is mapped from its k-th element on
RECURSIVE CursorStays(_, _, _, _, _)
CursorStays(places, pos, k, delta, i) ==
    IF k > Len(pos) THEN TRUE
    ELSE LET r == Advance(places, pos[k], delta, i)
         IN ~r.oob /\ CursorStays(places, pos, k + 1, r.delta, r.i)

\* C17: for a first click on p with mines <= rows*cols - exclusion_size, the
\* runs cover exactly the exclusion indices, and for every sorted sample the
\* cursor stays within the runs, the sampled index a goes to the a-th
\* non-excluded index in row-major order, and start() leaves the sentinel on
\* exactly those `mines` cells.
C17_SkipTheGaps ==
    ~start =>
        \A p \in AllCells :
            mines <= SampleSpace(Self, p[1], p[2]) =>
                LET places == Runs(Self, p[1], p[2])
                    free == SortedSeq((0 .. rows * cols - 1) \ ExcludedIdx(p))
                IN /\ Covered(places) = ExcludedIdx(p)
                   /\ SumLens(places) = Cardinality(ExcludedIdx(p))
                   /\ \A S \in Samples(Self, p[1], p[2]) :
                         LET pos == SortedSeq(S)
                             to == Remap(places, pos, 1, 0, 0, TRUE)
                             b == Start(Self, p[1], p[2], TRUE, S, now)
                         IN /\ CursorStays(places, pos, 1, 0, 0)
                            /\ Len(to) = mines
                            /\ \A k \in 1 .. Len(pos) : to[k] = free[pos[k] + 1]
                            /\ MinesOf(b.board) =
                                  {<<to[k] \div cols, to[k] % cols>> : k \in 1 .. Len(to)}
                            /\ Cardinality(MinesOf(b.board)) = mines

\* a click inside a 3x4 grid: three exclusion runs between the two closing
\* entries, and the two mines put in the gaps after the first and second run
C17_Witness ==
    /\ ActivatedBy("click")
    /\ Len(Runs(Self, first[1], first[2])) = 5
    /\ mines = 2
    /\ MinesOf(board) = {<<0, 3>>, <<1, 3>>}

\* ---- C18 ----------------------------------------------------------------
\* the cascade of click(p) on the current board under sampling outcome S
CascadeOf(p, S) ==
    LET b0 == IF ~start THEN Start(Self, p[1], p[2], TRUE, S, now) ELSE Self
        q == Seeds(b0, p[1], p[2])
    IN Cascade(b0, q, SeqToSet(q))

NoRepeat(s) == \A i \in 1 .. Len(s), j \in 1 .. Len(s) : s[i] = s[j] => i = j

\* C18: while update() is never called on a finished game, clicked_cells is
\* the number of cells tagged Discovered, and in the cascade of any click no
\* cell enters the queue twice and at most rows*cols cells are popped.
C18_NoDoubleCount ==
    /\ clicked_cells = Cardinality(Tagged(board, Discovered))
    /\ \A p \in AllCells : \A S \in Outcomes(p[1], p[2]) :
          LET r == CascadeOf(p, S)
          IN /\ NoRepeat(r.popped \o r.left)
             /\ Len(r.popped) <= rows * cols
             /\ r.b.clicked_cells = Cardinality(Tagged(r.b.board, Discovered))

\* two revealed cells of value 0 have a common revealed neighbour, which the
\* second of them found in the visited set
C18_Witness ==
    /\ clicked_cells >= 4
    /\ \E p \in AllCells, q \in AllCells, n \in AllCells :
          /\ p # q /\ n # p /\ n # q
          /\ Adjacent(p, n) /\ Adjacent(q, n) /\ Adjacent(p, q)
          /\ board[p] = Discovered * 16
          /\ board[q] = Discovered * 16
          /\ State(board[n]) = Discovered /\ Value(board[n]) > 0

\* ---- C19 ----------------------------------------------------------------
\* the least set of cells that contains X and every Blank neighbour of a
\* member of value 0
RECURSIVE Closure(_, _)
Closure(bd, X) ==
    LET Y == X \cup {n \in DOMAIN bd :
                        /\ State(bd[n]) = Blank
                        /\ \E m \in X : Value(bd[m]) = 0 /\ Adjacent(m, n)}
    IN IF Y = X THEN X ELSE Closure(bd, Y)

\* C19: on an InProgress board, a click whose cascade pops no mine turns
\* exactly the closure of its seeds from Blank to Discovered and leaves every
\* other cell, the Flagged and Question ones among them, as it was.
C19_FloodFill ==
    game_state = "InProgress" =>
        \A p \in AllCells : \A S \in Outcomes(p[1], p[2]) :
            LET b0 == IF ~start THEN Start(Self, p[1], p[2], TRUE, S, now) ELSE Self
                fill == Closure(b0.board, SeqToSet(Seeds(b0, p[1], p[2])))
                after == Click(Self, p[1], p[2], S, now).board
            IN ~CascadeOf(p, S).returned =>
                  /\ {c \in AllCells : State(b0.board[c]) = Blank
                                       /\ State(after[c]) = Discovered} = fill
                  /\ \A c \in fill : after[c] = Value(b0.board[c])
                  /\ \A c \in AllCells \ fill : after[c] = b0.board[c]

\* the board was activated by a flag on a cell without a mine and the next
\* call was a click whose cascade went round the flagged cell
C19_Witness ==
    /\ ActivatedBy("flag")
    /\ calls = 2
    /\ game_state = "InProgress"
    /\ State(board[<<first[1], first[2]>>]) = Flagged
    /\ ~IsMine(board, <<first[1], first[2]>>)
    /\ Cardinality({z \in AllCells : board[z] = Discovered * 16
                                     /\ Adjacent(z, <<first[1], first[2]>>)}) >= 2

\* ---- C20 ----------------------------------------------------------------
\* C20: in the cascade of any click, a popped cell that carries the mine
\* sentinel is one of the seeds; and on an activated InProgress board the
\* click of a Blank cell without the sentinel leaves game_state other than
\* Lost and tags no cell Exploded.
C20_MineOnlyAsSeed ==
    /\ \A p \in AllCells : \A S \in Outcomes(p[1], p[2]) :
          LET b0 == IF ~start THEN Start(Self, p[1], p[2], TRUE, S, now) ELSE Self
              seeds == SeqToSet(Seeds(b0, p[1], p[2]))
              r == CascadeOf(p, S)
          IN /\ \A k \in 1 .. Len(r.popped) :
                   IsMine(b0.board, r.popped[k]) => r.popped[k] \in seeds
             /\ \A k \in 1 .. Len(r.left) :
                   IsMine(b0.board, r.left[k]) => r.left[k] \in seeds
    /\ (start /\ game_state = "InProgress") =>
          \A p \in AllCells :
             (State(board[p]) = Blank /\ ~IsMine(board, p)) =>
                LET b == Click(Self, p[1], p[2], {}, now)
                IN /\ b.game_state # "Lost"
                   /\ Tagged(b.board, Exploded) = {}
                   /\ State(b.board[p]) = Discovered

\* a click on a cell of value 0 spread to cells next to a Blank mine and the
\* game went on
C20_Witness ==
    /\ start
    /\ game_state = "InProgress"
    /\ \E z \in AllCells, n \in AllCells, m \in AllCells :
          /\ board[z] = Discovered * 16
          /\ Adjacent(z, n) /\ Adjacent(n, m)
          /\ State(board[n]) = Discovered /\ Value(board[n]) > 0
          /\ State(board[m]) = Blank /\ IsMine(board, m)
====
